---- MODULE Spec2Model ----
(***************************************************************************)
(* IterableWrapperIterDataPipe (torch/utils/data/datapipes/iter/utils.py). *)
(*                                                                         *)
(* The Python objects are modelled as a small heap:                        *)
(*   srcs   the iterables the caller wraps (mutable list-like containers), *)
(*   dicts  the attribute dictionaries (an instance's __dict__, and the    *)
(*          dictionaries __getstate__ returns),                            *)
(*   inst   which dictionary is each instance's __dict__,                  *)
(*   gens   the generator objects made by __iter__,                        *)
(*   held   the state dictionary the caller got from __getstate__,         *)
(*   travs  the generators the caller got from iter(dp), by the variable   *)
(*          of the caller that holds each.                                 *)
(* hist, phase, nmut and last are history variables: they record what has  *)
(* happened and are read by no operation of the program.                   *)
(*   hist[d].produced   elements next(dp) has returned since the counter   *)
(*                      of dictionary d was last set to 0,                 *)
(*   hist[d].calls      __next__ calls made since then, the ones that      *)
(*                      raised StopIteration included,                     *)
(*   hist[d].ctorItems  content of the iterable when __init__ ran,         *)
(*   hist[d].from       the instance a state dictionary was taken from,    *)
(*   phase[i]           "raw" (no __init__ yet), "fresh" (__init__ and     *)
(*                      nothing else), "advancing" (only next(dp) calls    *)
(*                      that returned an element, and save_snapshot),      *)
(*                      "extracted" (__getstate__ just succeeded),         *)
(*                      "installed" (__setstate__ just ran), "other",      *)
(*   last               the last call, its argument, its result, and the   *)
(*                      phase and state_counter of the instance before it. *)
(* In a generator, out (the elements yielded), snap (the content of the    *)
(* iterable at the first pull), clean (no in-place change of an iterable   *)
(* since iter(dp)) and second (another traversal of the datapipe had been  *)
(* completed at iter(dp)) are history fields too.                          *)
(***************************************************************************)
EXTENDS Integers, Sequences, FiniteSets, TLC

VARIABLES srcs, dicts, inst, gens, held, travs, hist, phase, nmut, last

vars == <<srcs, dicts, inst, gens, held, travs, hist, phase, nmut, last>>

-----------------------------------------------------------------------------
(* Bounds of the model *)

\* longest source
MaxLen == 3
\* __next__ is not called once state_counter has reached this value
MaxCount == 4
\* number of in-place changes the caller makes to the sources
MaxMut == 1

-----------------------------------------------------------------------------
(* Identities *)

\* Python's None, as the value of self.iter and as "no object"
None == 0
\* the dictionary has no 'iter' key
NoKey == -1
\* restore_snapshot() called without target_count
NoTarget == -1

\* the datapipe objects of the caller
Insts == {1, 2}
\* the iterables of the caller: 1 can be deep-copied, 2 cannot
Sources == {1, 2}
\* a live dictionary per instance and the one the caller holds
DictIds == 1 .. (Cardinality(Insts) + 1)
\* the caller's variables holding a generator it got from iter(dp)
Slots == {1, 2}
\* the generator stored in dictionary d has identity d, the one in the caller's
\* variable k has identity SlotGen(k)
SlotGen(k) == Cardinality(DictIds) + k
GenIds == 1 .. (Cardinality(DictIds) + Cardinality(Slots))

SrcInit(s) == [items |-> [k \in 1 .. MaxLen |-> 10 * s + k], copyable |-> (s = 1)]

FreeDict == [live |-> FALSE, iterable |-> None, deepcopy |-> FALSE,
             state_counter |-> 0, iter |-> NoKey]

FreeGen == [live |-> FALSE, st |-> "free", self |-> None, src |-> None, dc |-> FALSE,
            direct |-> FALSE, data |-> <<>>, pos |-> 0, out |-> <<>>, snap |-> <<>>,
            clean |-> TRUE, second |-> FALSE]

FreeHist == [produced |-> 0, calls |-> 0, ctorItems |-> <<>>, from |-> None]

\* results of a call
RetNone == [kind |-> "none", val |-> 0]
RetStop == [kind |-> "StopIteration", val |-> 0]
RetExc == [kind |-> "Exception", val |-> 0]
RetElem(v) == [kind |-> "elem", val |-> v]
RetInt(v) == [kind |-> "int", val |-> v]
RetState(d) == [kind |-> "state", val |-> d]
RetGen(g) == [kind |-> "generator", val |-> g]

SetMin(S) == CHOOSE x \in S : \A y \in S : x <= y

-----------------------------------------------------------------------------
(* The object heap: h = [dicts, gens, hist, warned] *)

Heap == [dicts |-> dicts, gens |-> gens, hist |-> hist, warned |-> FALSE]

\* the generator object a call of self.__iter__() returns: its body has not run
NewGen(i) == [FreeGen EXCEPT !.live = TRUE, !.st = "new", !.self = i]

\* __iter__ iterating self.iterable itself whatever self.deepcopy says
StartGenNoCopy(h, g) ==
    LET d == h.dicts[inst[h.gens[g].self]]
        s == d.iterable
    IN [h EXCEPT !.gens[g] = [@ EXCEPT !.st = "run", !.src = s, !.dc = d.deepcopy,
                                       !.direct = TRUE,
                                       !.snap = srcs[s].items]]

\* __iter__ falling back to a shallow copy when deepcopy raises TypeError
StartGenShallowFallback(h, g) ==
    LET d == h.dicts[inst[h.gens[g].self]]
        s == d.iterable
    IN [h EXCEPT !.gens[g] = [@ EXCEPT !.st = "run", !.src = s, !.dc = d.deepcopy,
                                       !.direct = ~d.deepcopy,
                                       !.data = IF d.deepcopy THEN srcs[s].items ELSE <<>>,
                                       !.snap = srcs[s].items],
                 !.warned = @ \/ (d.deepcopy /\ ~srcs[s].copyable)]

\* __iter__ reading a deep copy that was taken when the datapipe was constructed
StartGenCtorCopy(h, g) ==
    LET d == h.dicts[inst[h.gens[g].self]]
        s == d.iterable
        copied == d.deepcopy /\ srcs[s].copyable
    IN [h EXCEPT !.gens[g] = [@ EXCEPT !.st = "run", !.src = s, !.dc = d.deepcopy,
                                       !.direct = ~copied,
                                       !.data = IF copied
                                                THEN h.hist[inst[h.gens[g].self]].ctorItems
                                                ELSE <<>>,
                                       !.snap = srcs[s].items],
                 !.warned = @ \/ (d.deepcopy /\ ~srcs[s].copyable)]

\* __iter__, lines 29-41: run when the first element is requested
StartGen(h, g) ==
    LET d == h.dicts[inst[h.gens[g].self]]
        s == d.iterable
        copied == d.deepcopy /\ srcs[s].copyable
    IN [h EXCEPT !.gens[g] = [@ EXCEPT !.st = "run", !.src = s, !.dc = d.deepcopy,
                                       !.direct = ~copied,
                                       !.data = IF copied THEN srcs[s].items ELSE <<>>,
                                       !.snap = srcs[s].items],
                 !.warned = @ \/ (d.deepcopy /\ ~srcs[s].copyable)]

\* the container the for loop of __iter__ reads
GenItems(h, g) == IF h.gens[g].direct THEN srcs[h.gens[g].src].items ELSE h.gens[g].data

\* next(generator): __iter__, lines 42-43
GenPull(h, g) ==
    LET h1 == IF h.gens[g].st = "new" THEN StartGen(h, g) ELSE h
        gen == h1.gens[g]
        items == GenItems(h1, g)
    IN IF gen.st = "done"
       THEN [h |-> h1, ret |-> RetStop]
       ELSE IF gen.pos < Len(items)
            THEN [h |-> [h1 EXCEPT !.gens[g].pos = @ + 1,
                                   !.gens[g].out = Append(@, items[gen.pos + 1])],
                  ret |-> RetElem(items[gen.pos + 1])]
            ELSE [h |-> [h1 EXCEPT !.gens[g].st = "done"], ret |-> RetStop]

\* __next__ counting twice per call
NextOpCountsTwice(h, i) ==
    LET d == inst[i]
        h1 == IF h.dicts[d].iter = None
              THEN [h EXCEPT !.gens[d] = NewGen(i), !.dicts[d].iter = d]
              ELSE h
        h2 == [h1 EXCEPT !.dicts[d].state_counter = @ + 2, !.hist[d].calls = @ + 1]
        r == GenPull(h2, h2.dicts[d].iter)
    IN [h |-> IF r.ret.kind = "elem"
              THEN [r.h EXCEPT !.hist[d].produced = @ + 1]
              ELSE r.h,
        ret |-> r.ret]

\* __next__ replacing a generator that has finished by a new one
NextOpRestarts(h, i) ==
    LET d == inst[i]
        h1 == IF h.dicts[d].iter = None \/ h.gens[h.dicts[d].iter].st = "done"
              THEN [h EXCEPT !.gens[d] = NewGen(i), !.dicts[d].iter = d]
              ELSE h
        h2 == [h1 EXCEPT !.dicts[d].state_counter = @ + 1, !.hist[d].calls = @ + 1]
        r == GenPull(h2, h2.dicts[d].iter)
    IN [h |-> IF r.ret.kind = "elem"
              THEN [r.h EXCEPT !.hist[d].produced = @ + 1]
              ELSE r.h,
        ret |-> r.ret]

\* __next__ counting only after next(self.iter) has returned an element
NextOpCountsReturned(h, i) ==
    LET d == inst[i]
        h1 == IF h.dicts[d].iter = None
              THEN [h EXCEPT !.gens[d] = NewGen(i), !.dicts[d].iter = d]
              ELSE h
        h2 == [h1 EXCEPT !.hist[d].calls = @ + 1]
        r == GenPull(h2, h2.dicts[d].iter)
    IN [h |-> IF r.ret.kind = "elem"
              THEN [r.h EXCEPT !.hist[d].produced = @ + 1,
                               !.dicts[d].state_counter = @ + 1]
              ELSE r.h,
        ret |-> r.ret]

\* __next__ dropping a generator that has finished: self.iter = None on StopIteration
NextOpDropsExhausted(h, i) ==
    LET d == inst[i]
        h1 == IF h.dicts[d].iter = None
              THEN [h EXCEPT !.gens[d] = NewGen(i), !.dicts[d].iter = d]
              ELSE h
        h2 == [h1 EXCEPT !.dicts[d].state_counter = @ + 1, !.hist[d].calls = @ + 1]
        r == GenPull(h2, h2.dicts[d].iter)
    IN [h |-> IF r.ret.kind = "elem"
              THEN [r.h EXCEPT !.hist[d].produced = @ + 1]
              ELSE [r.h EXCEPT !.gens[d] = FreeGen, !.dicts[d].iter = None],
        ret |-> r.ret]

\* __next__, lines 45-49
NextOp(h, i) ==
    LET d == inst[i]
        h1 == IF h.dicts[d].iter = None
              THEN [h EXCEPT !.gens[d] = NewGen(i), !.dicts[d].iter = d]
              ELSE h
        h2 == [h1 EXCEPT !.dicts[d].state_counter = @ + 1, !.hist[d].calls = @ + 1]
        r == GenPull(h2, h2.dicts[d].iter)
    IN [h |-> IF r.ret.kind = "elem"
              THEN [r.h EXCEPT !.hist[d].produced = @ + 1]
              ELSE r.h,
        ret |-> r.ret]

\* restore_snapshot looping while state_counter <= target_count
RECURSIVE RestoreLoopOffByOne(_, _, _)
RestoreLoopOffByOne(h, i, target) ==
    IF h.dicts[inst[i]].state_counter <= target
    THEN LET r == NextOp(h, i)
         IN IF r.ret.kind = "StopIteration" THEN r ELSE RestoreLoopOffByOne(r.h, i, target)
    ELSE [h |-> h, ret |-> RetNone]

\* restore_snapshot catching the StopIteration of next(self)
RECURSIVE RestoreLoopSwallows(_, _, _)
RestoreLoopSwallows(h, i, target) ==
    IF h.dicts[inst[i]].state_counter < target
    THEN LET r == NextOp(h, i)
         IN IF r.ret.kind = "StopIteration"
            THEN [h |-> r.h, ret |-> RetNone]
            ELSE RestoreLoopSwallows(r.h, i, target)
    ELSE [h |-> h, ret |-> RetNone]

\* restore_snapshot, lines 58-59
RECURSIVE RestoreLoop(_, _, _)
RestoreLoop(h, i, target) ==
    IF h.dicts[inst[i]].state_counter < target
    THEN LET r == NextOp(h, i)
         IN IF r.ret.kind = "StopIteration" THEN r ELSE RestoreLoop(r.h, i, target)
    ELSE [h |-> h, ret |-> RetNone]

\* restore_snapshot writing the target into state_counter without replaying
RestoreOpJumps(h, i, t) ==
    LET d == inst[i]
        target == IF t = NoTarget THEN h.dicts[d].state_counter ELSE t
    IN [h |-> [h EXCEPT !.dicts[d].state_counter = target, !.hist[d].produced = 0,
                        !.hist[d].calls = 0],
        ret |-> RetNone]

\* restore_snapshot, lines 54-59
RestoreOp(h, i, t) ==
    LET d == inst[i]
        target == IF t = NoTarget THEN h.dicts[d].state_counter ELSE t
        h0 == [h EXCEPT !.dicts[d].state_counter = 0, !.hist[d].produced = 0,
                       !.hist[d].calls = 0]
    IN RestoreLoop(h0, i, target)

\* the elements repeated __next__ calls return until StopIteration
RECURSIVE Drain(_, _)
Drain(h, i) ==
    LET r == NextOp(h, i)
    IN IF r.ret.kind = "elem" THEN <<r.ret.val>> \o Drain(r.h, i) ELSE <<>>

\* objects nothing refers to any more are released (reference counting)
Collect(h, inst2, held2, travs2) ==
    LET liveD == ({inst2[i] : i \in Insts} \cup {held2}) \ {None}
        liveG == {h.dicts[d].iter : d \in liveD} \cup {travs2[k] : k \in Slots}
    IN [h EXCEPT !.dicts = [d \in DictIds |-> IF d \in liveD THEN h.dicts[d] ELSE FreeDict],
                 !.hist = [d \in DictIds |-> IF d \in liveD THEN h.hist[d] ELSE FreeHist],
                 !.gens = [g \in GenIds |-> IF g \in liveG THEN h.gens[g] ELSE FreeGen]]

-----------------------------------------------------------------------------
(* History *)

Record(op, i, arg, ret, warned) ==
    [op |-> op, inst |-> i, arg |-> arg, ret |-> ret, warned |-> warned,
     phase |-> IF i \in Insts THEN phase[i] ELSE "none",
     pre |-> IF i \in Insts /\ inst[i] # None THEN dicts[inst[i]].state_counter ELSE 0]

\* instance i is now in phase p, and the instances sharing its dictionary are in "other"
Phases(i, p) == [j \in Insts |-> IF j = i THEN p
                                 ELSE IF inst[j] # None /\ inst[j] = inst[i] THEN "other"
                                 ELSE phase[j]]

-----------------------------------------------------------------------------
(* Initial state: the caller has two iterables and has built no datapipe *)

Init ==
    /\ srcs = [s \in Sources |-> SrcInit(s)]
    /\ dicts = [d \in DictIds |-> FreeDict]
    /\ inst = [i \in Insts |-> None]
    /\ gens = [g \in GenIds |-> FreeGen]
    /\ held = None
    /\ travs = [k \in Slots |-> None]
    /\ hist = [d \in DictIds |-> FreeHist]
    /\ phase = [i \in Insts |-> "raw"]
    /\ nmut = 0
    /\ last = [op |-> "start", inst |-> None, arg |-> 0, ret |-> RetNone, warned |-> FALSE,
               phase |-> "none", pre |-> 0]

-----------------------------------------------------------------------------
(* Operations *)

\* __init__(iterable, deepcopy), lines 22-26
Construct(i, s, dc) ==
    /\ inst[i] = None
    /\ LET d == SetMin({x \in DictIds : ~dicts[x].live})
       IN /\ inst' = [inst EXCEPT ![i] = d]
          /\ dicts' = [dicts EXCEPT ![d] = [live |-> TRUE, iterable |-> s, deepcopy |-> dc,
                                            state_counter |-> 0, iter |-> None]]
          /\ hist' = [hist EXCEPT ![d] = [produced |-> 0, calls |-> 0, ctorItems |-> srcs[s].items,
                                          from |-> None]]
    /\ phase' = [phase EXCEPT ![i] = "fresh"]
    /\ last' = Record("init", i, s, RetNone, FALSE)
    /\ UNCHANGED <<srcs, gens, held, travs, nmut>>

\* next(dp): __next__, lines 45-49
AdvanceOne(i) ==
    /\ inst[i] # None
    /\ dicts[inst[i]].state_counter < MaxCount
    /\ LET r == NextOp(Heap, i)
       IN /\ dicts' = r.h.dicts
          /\ gens' = r.h.gens
          /\ hist' = r.h.hist
          /\ phase' = Phases(i, IF phase[i] \in {"fresh", "advancing"} /\ r.ret.kind = "elem"
                                THEN "advancing" ELSE "other")
          /\ last' = Record("next", i, 0, r.ret, r.h.warned)
    /\ UNCHANGED <<srcs, inst, held, travs, nmut>>

\* save_snapshot, lines 51-52
SaveSnapshot(i) ==
    /\ inst[i] # None
    /\ last' = Record("save", i, 0, RetInt(dicts[inst[i]].state_counter), FALSE)
    /\ UNCHANGED <<srcs, dicts, inst, gens, held, travs, hist, phase, nmut>>

\* restore_snapshot(target_count), lines 54-59
RestoreSnapshot(i, t) ==
    /\ inst[i] # None
    /\ LET r == RestoreOp(Heap, i, t)
       IN /\ dicts' = r.h.dicts
          /\ gens' = r.h.gens
          /\ hist' = r.h.hist
          /\ last' = Record("restore", i, t, r.ret, r.h.warned)
    /\ phase' = Phases(i, "other")
    /\ UNCHANGED <<srcs, inst, held, travs, nmut>>

\* __getstate__ without the check of self.iter
GetStateNoCheck(i) ==
    /\ inst[i] # None
    /\ LET h1 == Collect(Heap, inst, None, travs)
           n == SetMin({x \in DictIds : ~h1.dicts[x].live})
           h2 == [h1 EXCEPT !.dicts[n] = [dicts[inst[i]] EXCEPT !.iter = NoKey],
                            !.hist[n] = [hist[inst[i]] EXCEPT !.from = i]]
       IN /\ dicts' = h2.dicts
          /\ gens' = h2.gens
          /\ hist' = h2.hist
          /\ held' = n
          /\ last' = Record("getstate", i, 0, RetState(n), FALSE)
          /\ phase' = Phases(i, "extracted")
    /\ UNCHANGED <<srcs, inst, travs, nmut>>

\* __getstate__ building the state from the constructor's defaults
GetStateDefaults(i) ==
    /\ inst[i] # None
    /\ IF dicts[inst[i]].iter # None
       THEN /\ last' = Record("getstate", i, 0, RetExc, FALSE)
            /\ phase' = Phases(i, "other")
            /\ UNCHANGED <<dicts, gens, hist, held>>
       ELSE LET h1 == Collect(Heap, inst, None, travs)
                n == SetMin({x \in DictIds : ~h1.dicts[x].live})
                h2 == [h1 EXCEPT !.dicts[n] = [dicts[inst[i]] EXCEPT !.iter = NoKey,
                                                                     !.deepcopy = TRUE],
                                 !.hist[n] = [hist[inst[i]] EXCEPT !.from = i]]
            IN /\ dicts' = h2.dicts
               /\ gens' = h2.gens
               /\ hist' = h2.hist
               /\ held' = n
               /\ last' = Record("getstate", i, 0, RetState(n), FALSE)
               /\ phase' = Phases(i, "extracted")
    /\ UNCHANGED <<srcs, inst, travs, nmut>>

\* __getstate__ deleting 'iter' from self.__dict__ itself (no copy)
GetStateNoCopy(i) ==
    /\ inst[i] # None
    /\ IF dicts[inst[i]].iter # None
       THEN /\ last' = Record("getstate", i, 0, RetExc, FALSE)
            /\ phase' = Phases(i, "other")
            /\ UNCHANGED <<dicts, gens, hist, held>>
       ELSE LET h1 == Collect(Heap, inst, inst[i], travs)
            IN /\ dicts' = [h1.dicts EXCEPT ![inst[i]].iter = NoKey]
               /\ gens' = h1.gens
               /\ hist' = h1.hist
               /\ held' = inst[i]
               /\ last' = Record("getstate", i, 0, RetState(inst[i]), FALSE)
               /\ phase' = Phases(i, "extracted")
    /\ UNCHANGED <<srcs, inst, travs, nmut>>

\* __getstate__, lines 61-74; the caller keeps the returned dictionary in held
GetState(i) ==
    /\ inst[i] # None
    /\ IF dicts[inst[i]].iter # None
       THEN /\ last' = Record("getstate", i, 0, RetExc, FALSE)
            /\ phase' = Phases(i, "other")
            /\ UNCHANGED <<dicts, gens, hist, held>>
       ELSE LET h1 == Collect(Heap, inst, None, travs)
                n == SetMin({x \in DictIds : ~h1.dicts[x].live})
                h2 == [h1 EXCEPT !.dicts[n] = [dicts[inst[i]] EXCEPT !.iter = NoKey],
                                 !.hist[n] = [hist[inst[i]] EXCEPT !.from = i]]
            IN /\ dicts' = h2.dicts
               /\ gens' = h2.gens
               /\ hist' = h2.hist
               /\ held' = n
               /\ last' = Record("getstate", i, 0, RetState(n), FALSE)
               /\ phase' = Phases(i, "extracted")
    /\ UNCHANGED <<srcs, inst, travs, nmut>>

\* a __setstate__ that leaves the generator to the first __next__: self.iter = None
SetStateLazy(i) ==
    /\ held # None
    /\ LET inst2 == [inst EXCEPT ![i] = held]
           h1 == Collect(Heap, inst2, held, travs)
           h2 == [h1 EXCEPT !.gens[held] = FreeGen, !.dicts[held].iter = None]
       IN /\ inst' = inst2
          /\ dicts' = h2.dicts
          /\ gens' = h2.gens
          /\ hist' = h2.hist
    /\ phase' = [j \in Insts |-> IF j = i THEN "installed"
                                 ELSE IF inst[j] = held THEN "other" ELSE phase[j]]
    /\ last' = Record("setstate", i, held, RetNone, FALSE)
    /\ UNCHANGED <<srcs, held, travs, nmut>>

\* __setstate__(state), lines 76-78, with the dictionary the caller holds
SetState(i) ==
    /\ held # None
    /\ LET inst2 == [inst EXCEPT ![i] = held]
           h1 == Collect(Heap, inst2, held, travs)
           h2 == [h1 EXCEPT !.gens[held] = NewGen(i), !.dicts[held].iter = held]
       IN /\ inst' = inst2
          /\ dicts' = h2.dicts
          /\ gens' = h2.gens
          /\ hist' = h2.hist
    /\ phase' = [j \in Insts |-> IF j = i THEN "installed"
                                 ELSE IF inst[j] = held THEN "other" ELSE phase[j]]
    /\ last' = Record("setstate", i, held, RetNone, FALSE)
    /\ UNCHANGED <<srcs, held, travs, nmut>>

\* it_k = iter(dp): __iter__, line 28; the generator it_k held before is released
CreateIterator(i, k) ==
    /\ inst[i] # None
    /\ gens' = [gens EXCEPT ![SlotGen(k)] =
                  [NewGen(i) EXCEPT !.second = \E j \in Slots \ {k} :
                                        /\ travs[j] # None
                                        /\ gens[travs[j]].self = i
                                        /\ gens[travs[j]].st = "done"]]
    /\ travs' = [travs EXCEPT ![k] = SlotGen(k)]
    /\ last' = Record("iter", i, k, RetGen(SlotGen(k)), FALSE)
    /\ phase' = Phases(i, "other")
    /\ UNCHANGED <<srcs, dicts, inst, held, hist, nmut>>

\* __iter__ counting the elements it yields in self.state_counter
PullCounts(k) ==
    /\ travs[k] # None
    /\ LET r == GenPull(Heap, travs[k])
           d == inst[gens[travs[k]].self]
       IN /\ gens' = r.h.gens
          /\ dicts' = [dicts EXCEPT ![d].state_counter =
                          IF r.ret.kind = "elem" /\ @ < MaxCount THEN @ + 1 ELSE @]
          /\ last' = Record("pull", None, k, r.ret, r.h.warned)
    /\ UNCHANGED <<srcs, inst, held, travs, hist, phase, nmut>>

\* next(it_k) on a generator the caller holds: __iter__, lines 29-43
Pull(k) ==
    /\ travs[k] # None
    /\ LET r == GenPull(Heap, travs[k])
       IN /\ gens' = r.h.gens
          /\ last' = Record("pull", None, k, r.ret, r.h.warned)
    /\ UNCHANGED <<srcs, dicts, inst, held, travs, hist, phase, nmut>>

\* the caller changes an iterable that a datapipe wraps in place: s.pop() or s[0] = 0
Mutate(s, m) ==
    /\ nmut < MaxMut
    /\ \E i \in Insts : inst[i] # None /\ dicts[inst[i]].iterable = s
    /\ \/ /\ m = "pop"
          /\ Len(srcs[s].items) > 0
          /\ srcs' = [srcs EXCEPT ![s].items = SubSeq(@, 1, Len(@) - 1)]
       \/ /\ m = "set"
          /\ Len(srcs[s].items) > 0
          /\ srcs[s].items[1] # 0
          /\ srcs' = [srcs EXCEPT ![s].items[1] = 0]
    /\ nmut' = nmut + 1
    /\ gens' = [g \in GenIds |-> IF gens[g].st \in {"new", "run"}
                                 THEN [gens[g] EXCEPT !.clean = FALSE] ELSE gens[g]]
    /\ last' = Record("mutate", None, s, RetNone, FALSE)
    /\ UNCHANGED <<dicts, inst, held, travs, hist, phase>>

\* a __len__ that reports what is left to read, len(self.iterable) - state_counter
LengthRemaining(i) ==
    /\ inst[i] # None
    /\ LET n == Len(srcs[dicts[inst[i]].iterable].items)
           c == dicts[inst[i]].state_counter
       IN last' = Record("len", i, 0, RetInt(IF c < n THEN n - c ELSE 0), FALSE)
    /\ phase' = Phases(i, "other")
    /\ UNCHANGED <<srcs, dicts, inst, gens, held, travs, hist, nmut>>

\* len(dp): __len__, lines 80-81
Length(i) ==
    /\ inst[i] # None
    /\ last' = Record("len", i, 0, RetInt(Len(srcs[dicts[inst[i]].iterable].items)), FALSE)
    /\ phase' = Phases(i, "other")
    /\ UNCHANGED <<srcs, dicts, inst, gens, held, travs, hist, nmut>>

\* one datapipe, driven through next(), the snapshot calls and the pickling hooks
NextSnap ==
    \/ \E s \in Sources, dc \in BOOLEAN : Construct(1, s, dc)
    \/ AdvanceOne(1)
    \/ SaveSnapshot(1)
    \/ \E t \in {NoTarget} \cup (0 .. MaxCount) : RestoreSnapshot(1, t)
    \/ GetState(1)
    \/ SetState(1)
    \/ \E s \in Sources, m \in {"pop", "set"} : Mutate(s, m)
    \/ Length(1)

SpecSnap == Init /\ [][NextSnap]_vars

\* one datapipe, iterated through iter(dp) and through next(dp)
NextIter ==
    \/ \E s \in Sources, dc \in BOOLEAN : Construct(1, s, dc)
    \/ AdvanceOne(1)
    \/ \E k \in Slots : CreateIterator(1, k)
    \/ \E k \in Slots : Pull(k)
    \/ \E s \in Sources, m \in {"pop", "set"} : Mutate(s, m)

SpecIter == Init /\ [][NextIter]_vars

\* datapipe 1 is built by the caller, datapipe 2 only by unpickling
NextPair ==
    \/ \E s \in Sources, dc \in BOOLEAN : Construct(1, s, dc)
    \/ \E i \in Insts : AdvanceOne(i)
    \/ \E i \in Insts : GetState(i)
    \/ \E i \in Insts : SetState(i)

SpecPair == Init /\ [][NextPair]_vars

\* one datapipe whose length is asked between next(), restore_snapshot() and iter(dp)
NextLen ==
    \/ \E s \in Sources, dc \in BOOLEAN : Construct(1, s, dc)
    \/ AdvanceOne(1)
    \/ \E t \in {NoTarget} \cup (0 .. MaxCount) : RestoreSnapshot(1, t)
    \/ CreateIterator(1, 1)
    \/ \E s \in Sources, m \in {"pop", "set"} : Mutate(s, m)
    \/ Length(1)

SpecLen == Init /\ [][NextLen]_vars

\* one datapipe and one traversal of it, with the pickling hooks and a caller who
\* changes the iterable between the calls
NextLazy ==
    \/ \E s \in Sources, dc \in BOOLEAN : Construct(1, s, dc)
    \/ AdvanceOne(1)
    \/ GetState(1)
    \/ SetState(1)
    \/ CreateIterator(1, 1)
    \/ Pull(1)
    \/ \E s \in Sources, m \in {"pop", "set"} : Mutate(s, m)

SpecLazy == Init /\ [][NextLazy]_vars

TypeOK ==
    /\ \A d \in DictIds : dicts[d].live =>
          /\ dicts[d].iterable \in Sources
          /\ dicts[d].iter \in GenIds \cup {None, NoKey}
          /\ dicts[d].iter \in GenIds => gens[dicts[d].iter].live
    /\ \A i \in Insts : inst[i] # None => dicts[inst[i]].live /\ dicts[inst[i]].iter # NoKey
    /\ \A k \in Slots : travs[k] # None => gens[travs[k]].live

-----------------------------------------------------------------------------
(* Properties *)

\* the dictionary and the iterable of the instance the last call was made on
LastDict == dicts[inst[last.inst]]
LastItems == srcs[LastDict.iterable].items

\* the result the next next(dp) on instance i would give
Peek(i) == NextOp(Heap, i).ret

\* C1: on an instance over S with deepcopy=True on which k < len(S) next(dp) calls
\* have each returned an element, restore_snapshot() without target completes
\* without StopIteration, leaves state_counter = k, and the next next(dp) returns S[k].
C1_RestoreDefaultReplaysFromStart ==
    (/\ last.op = "restore"
     /\ last.arg = NoTarget
     /\ last.phase \in {"fresh", "advancing"}
     /\ LastDict.deepcopy
     /\ LastItems = hist[inst[last.inst]].ctorItems
     /\ last.pre < Len(LastItems))
    => /\ last.ret = RetNone
       /\ LastDict.state_counter = last.pre
       /\ Peek(last.inst) = RetElem(LastItems[last.pre + 1])

\* C2: on a freshly constructed instance, or one on which __setstate__ has just run,
\* restore_snapshot(k) with 0 <= k < len(S) leaves state_counter = k and the next
\* next(dp) returns S[k].
C2_RestoreOnFreshPositionsAtK ==
    (/\ last.op = "restore"
     /\ last.arg # NoTarget
     /\ last.phase \in {"fresh", "installed"}
     /\ last.arg < Len(LastItems))
    => /\ last.ret = RetNone
       /\ LastDict.state_counter = last.arg
       /\ Peek(last.inst) = RetElem(LastItems[last.arg + 1])

\* C2 witness: restore_snapshot(2) right after __setstate__, positioned before S[2]
C2_Witness ==
    /\ last.op = "restore"
    /\ last.phase = "installed"
    /\ last.arg = 2
    /\ LastDict.state_counter = 2
    /\ Peek(last.inst) = RetElem(LastItems[3])

\* C3: state_counter never exceeds the number of elements next(dp) has returned
\* since state_counter was last set to 0 by __init__ or restore_snapshot.
C3_CounterAtMostProduced ==
    \A i \in Insts : inst[i] # None =>
        dicts[inst[i]].state_counter <= hist[inst[i]].produced

\* C4: on an instance driven only by next(dp) since __init__, after k calls that each
\* returned an element save_snapshot returns k; save_snapshot changes no field.
C4_SaveReturnsK ==
    [][last'.op = "save" =>
          /\ last'.phase \in {"fresh", "advancing"} =>
                last'.ret = RetInt(hist[inst[last'.inst]].produced)
          /\ dicts' = dicts
          /\ gens' = gens
          /\ inst' = inst]_vars

\* C4 witness: save_snapshot returned 2 after two next(dp) calls that returned elements
C4_Witness ==
    /\ last.op = "save"
    /\ last.phase = "advancing"
    /\ last.ret = RetInt(2)
    /\ hist[inst[last.inst]].produced = 2

\* the generator the caller's variable k holds
Trav(k) == gens[travs[k]]

\* the traversal in k ran to completion on a duplicate
CopiedDone(k) ==
    /\ travs[k] # None
    /\ Trav(k).st = "done"
    /\ Trav(k).dc
    /\ srcs[Trav(k).src].copyable

\* C5 as stated: with deepcopy=True and a duplicable source whose content is S at
\* __init__, two iter(dp) traversals run to completion one after the other each yield
\* exactly S, even when the caller changes the source in place between the two.
C5_TwoTraversalsYieldCtorContent ==
    \A j \in Slots, k \in Slots :
        (/\ j # k
         /\ CopiedDone(j)
         /\ CopiedDone(k)
         /\ Trav(j).self = Trav(k).self
         /\ Trav(j).clean
         /\ Trav(k).clean
         /\ Trav(k).second
         /\ Trav(j).out = hist[inst[Trav(j).self]].ctorItems)
        => Trav(k).out = hist[inst[Trav(k).self]].ctorItems

\* C5 amended: with deepcopy=True and a duplicable source, every iter(dp) traversal
\* run to completion yields exactly the content the source had when the first
\* element of that traversal was requested, whatever the caller does to the source
\* afterwards; so it yields S when the source still is S at its first pull.
C5_TraversalYieldsContentAtFirstPull ==
    \A k \in Slots : CopiedDone(k) =>
        /\ Trav(k).out = Trav(k).snap
        /\ Trav(k).snap = hist[inst[Trav(k).self]].ctorItems
              => Trav(k).out = hist[inst[Trav(k).self]].ctorItems

\* C5 witness: a second traversal ran to completion on its duplicate while the caller
\* changed the source after its first pull, and yielded the content at its first pull
C5_Witness ==
    \E k \in Slots :
        /\ CopiedDone(k)
        /\ Trav(k).second
        /\ ~Trav(k).clean
        /\ Trav(k).out = Trav(k).snap
        /\ Trav(k).out # srcs[Trav(k).src].items
        /\ Len(Trav(k).out) = MaxLen

\* C6: __getstate__ raises whenever self.iter is not None, in particular after any
\* next(dp); then no state is returned and no field changes. When self.iter is None
\* it succeeds.
C6_GetStateFailsIffCursor ==
    [][last'.op = "getstate" =>
          LET i == last'.inst
          IN /\ last.op = "next" /\ last.inst = i => dicts[inst[i]].iter # None
             /\ IF dicts[inst[i]].iter # None
                THEN /\ last'.ret = RetExc
                     /\ dicts' = dicts
                     /\ gens' = gens
                     /\ inst' = inst
                     /\ held' = held
                ELSE last'.ret.kind = "state"]_vars

\* C6 witness: __getstate__ raised on an instance that had only been advanced
C6_Witness ==
    /\ last.op = "getstate"
    /\ last.phase = "advancing"
    /\ last.ret = RetExc
    /\ LastDict.iter # None

\* C7: when __getstate__ succeeds on A and its result is installed into a new
\* instance B, B has the same iterable and deepcopy as A, and the elements B yields
\* through next(dp) until StopIteration are those A would yield.
C7_InstalledCopyYieldsSame ==
    \A a \in Insts, b \in Insts :
        (/\ last.op = "setstate"
         /\ last.inst = b
         /\ last.phase = "raw"
         /\ phase[a] = "extracted"
         /\ hist[held].from = a)
        => /\ dicts[inst[b]].iterable = dicts[inst[a]].iterable
           /\ dicts[inst[b]].deepcopy = dicts[inst[a]].deepcopy
           /\ Drain(Heap, b) = Drain(Heap, a)

\* C7 witness: B was installed from A's state over the iterable that cannot be copied
C7_Witness ==
    /\ last.op = "setstate"
    /\ last.inst = 2
    /\ last.phase = "raw"
    /\ phase[1] = "extracted"
    /\ hist[held].from = 1
    /\ ~dicts[inst[2]].deepcopy
    /\ dicts[inst[2]].iterable = 2
    /\ Drain(Heap, 2) = srcs[2].items
    /\ Len(Drain(Heap, 1)) = MaxLen

C9_RestoreBeyondEndRaises ==
    [][(last'.op = "restore" /\ last'.arg # NoTarget) =>
          LET i == last'.inst
              n == Len(Drain(Heap, i))
          IN /\ last'.phase \in {"fresh", "installed"}
                   => n = Len(srcs[dicts[inst[i]].iterable].items)
             /\ last'.arg > n =>
                   /\ last'.ret = RetStop
                   /\ dicts'[inst[i]].state_counter = n + 1]_vars

\* C9 witness: restore_snapshot(MaxCount) on a fresh instance ended in StopIteration
C9_Witness ==
    /\ last.op = "restore"
    /\ last.phase = "fresh"
    /\ last.arg = MaxCount
    /\ last.arg > Len(LastItems)
    /\ last.ret = RetStop
    /\ LastDict.state_counter = Len(LastItems) + 1

\* C10: iter(dp), and pulling elements from the generator it returns, changes neither
\* state_counter nor self.iter; generators from separate iter(dp) calls advance
\* independently of each other and of the stored cursor next(dp) uses.
C10_TraversalsIndependent ==
    [][/\ last'.op \in {"iter", "pull"} =>
             /\ dicts' = dicts
             /\ inst' = inst
             /\ \A d \in DictIds : dicts[d].iter \in GenIds
                   => gens'[dicts[d].iter] = gens[dicts[d].iter]
             /\ \A j \in Slots : (j # last'.arg /\ travs[j] # None)
                   => /\ travs'[j] = travs[j]
                      /\ gens'[travs[j]] = gens[travs[j]]
       /\ last'.op = "next" =>
             \A j \in Slots : travs[j] # None
                   => /\ travs'[j] = travs[j]
                      /\ gens'[travs[j]] = gens[travs[j]]]_vars

\* C10 witness: two generators of the caller and the stored cursor stand at three
\* different positions, and state_counter counts the next(dp) calls only
C10_Witness ==
    /\ last.op = "pull"
    /\ travs[1] # None
    /\ travs[2] # None
    /\ Trav(1).pos = 2
    /\ Trav(2).pos = 1
    /\ inst[1] # None
    /\ dicts[inst[1]].iter # None
    /\ gens[dicts[inst[1]].iter].pos = 3
    /\ dicts[inst[1]].state_counter = 3

\* C11: with deepcopy=True and a source that cannot be deep-copied, starting a
\* traversal does not fail: a warning is emitted and the traversal reads the source
\* itself, so a change of the source made during the traversal is visible to it.
C11_UncopyableFallsBackToSource ==
    [][\A k \in Slots :
          (/\ last'.op = "pull"
           /\ last'.arg = k
           /\ travs[k] # None
           /\ Trav(k).st # "done"
           /\ dicts[inst[Trav(k).self]].deepcopy
           /\ ~srcs[dicts[inst[Trav(k).self]].iterable].copyable)
          => LET items == srcs[dicts[inst[Trav(k).self]].iterable].items
                 pos == Trav(k).pos
             IN /\ Trav(k).st = "new" => last'.warned
                /\ gens'[travs[k]].direct
                /\ last'.ret = IF pos < Len(items) THEN RetElem(items[pos + 1])
                               ELSE RetStop]_vars

\* C11 witness: a traversal over the source that cannot be copied, started with
\* deepcopy=True, ended early because the caller popped an element meanwhile
C11_Witness ==
    \E k \in Slots :
        /\ last.op = "pull"
        /\ last.arg = k
        /\ travs[k] # None
        /\ Trav(k).st = "done"
        /\ Trav(k).dc
        /\ ~srcs[Trav(k).src].copyable
        /\ ~Trav(k).clean
        /\ Len(Trav(k).out) >= 1
        /\ Trav(k).out = srcs[Trav(k).src].items
        /\ Trav(k).out # Trav(k).snap

\* C12: len(dp) returns the number of elements the wrapped source holds; while the
\* source holds what it held at construction this is the same number for
\* deepcopy=True and deepcopy=False, whatever next(), restore_snapshot() and
\* iter(dp) calls came before.
C12_LengthIsSourceLength ==
    last.op = "len"
    => /\ last.ret = RetInt(Len(LastItems))
       /\ LastItems = hist[inst[last.inst]].ctorItems
          => last.ret = RetInt(Len(SrcInit(LastDict.iterable).items))

\* C12 witness: the length asked after two next() calls and an iter(dp), source untouched
C12_Witness ==
    /\ last.op = "len"
    /\ last.ret = RetInt(MaxLen)
    /\ nmut = 0
    /\ LastDict.state_counter >= 2
    /\ LastDict.iter \in GenIds
    /\ travs[1] # None

\* C13: with deepcopy=True and a copyable source the copy is taken when the first
\* element of a traversal is requested, not when the generator is created by
\* iter(dp), __next__ or __setstate__ and not at construction: the copy holds what
\* the source holds at that first request, and from then on the traversal reads the
\* copy only, so a later change of the source does not reach it.
C13_CopyTakenAtFirstPull ==
    [][\A g \in GenIds :
          LET a == gens[g]
              b == gens'[g]
          IN /\ (a.st = "new" /\ b.st \in {"run", "done"} /\ b.dc /\ srcs[b.src].copyable)
                => /\ ~b.direct
                   /\ b.data = srcs[b.src].items
                   /\ b.out = SubSeq(b.data, 1, b.pos)
             /\ (a.st = "run" /\ b.st \in {"run", "done"} /\ a.dc /\ srcs[a.src].copyable)
                => /\ ~b.direct
                   /\ b.data = a.data
                   /\ b.out = SubSeq(a.data, 1, b.pos)]_vars

\* C13 witness: the caller changed the source once, after the first pull of the
\* traversal it holds and before the first next() on a datapipe __setstate__ had
\* given a generator: the traversal still reads the old content, the datapipe the new
C13_Witness ==
    /\ last.op = "next"
    /\ last.ret.kind = "elem"
    /\ last.phase = "installed"
    /\ travs[1] # None
    /\ Trav(1).st = "run"
    /\ Trav(1).dc
    /\ ~Trav(1).direct
    /\ ~Trav(1).clean
    /\ Len(Trav(1).out) >= 1
    /\ Trav(1).data # srcs[Trav(1).src].items
    /\ LET c == gens[LastDict.iter]
       IN /\ c.st = "run"
          /\ ~c.direct
          /\ ~c.clean
          /\ c.data = srcs[c.src].items
          /\ c.data # hist[inst[last.inst]].ctorItems

\* C14: after __setstate__(state) the instance's iterable, deepcopy and
\* state_counter are those of state, and self.iter is a generator at once, before
\* any next(): one that has not started, so that the first next() returns the first
\* element of the source whatever state_counter was installed.
C14_SetStateInstallsFieldsAndFreshCursor ==
    [][\A i \in Insts :
          /\ (last'.op = "setstate" /\ last'.inst = i)
             => /\ dicts'[inst'[i]].iterable = dicts[held].iterable
                /\ dicts'[inst'[i]].deepcopy = dicts[held].deepcopy
                /\ dicts'[inst'[i]].state_counter = dicts[held].state_counter
                /\ dicts'[inst'[i]].iter \in GenIds
                /\ gens'[dicts'[inst'[i]].iter].st = "new"
                /\ gens'[dicts'[inst'[i]].iter].self = i
          /\ (inst[i] # None /\ last.op = "setstate" /\ last.inst = i)
             => LET items == srcs[dicts[inst[i]].iterable].items
                IN Peek(i) = IF Len(items) > 0 THEN RetElem(items[1]) ELSE RetStop]_vars

\* C14 witness: a state installed into a datapipe that had advanced twice: its
\* counter is the state's and the next next() returns the first element
C14_Witness ==
    /\ last.op = "setstate"
    /\ last.pre >= 2
    /\ inst[last.inst] = held
    /\ LastDict.state_counter = 0
    /\ LastDict.iter \in GenIds
    /\ gens[LastDict.iter].st = "new"
    /\ Peek(last.inst) = RetElem(LastItems[1])

\* C15: a next() on a datapipe whose generator self.iter has nothing left raises
\* StopIteration, and so does every later next() as long as neither
\* restore_snapshot nor __setstate__ is called in between; a next() on a datapipe
\* that has a generator keeps that generator and never starts it over.
C15_ExhaustedStaysExhausted ==
    [][\A i \in Insts :
          (inst[i] # None /\ dicts[inst[i]].iter \in GenIds)
          => LET d == inst[i]
                 g == dicts[d].iter
                 left == IF gens[g].st = "new"
                         THEN Len(srcs[dicts[d].iterable].items)
                         ELSE IF gens[g].st = "done" THEN 0
                         ELSE Len(GenItems(Heap, g)) - gens[g].pos
             IN /\ (last'.op = "next" /\ last'.inst = i)
                   => /\ inst'[i] = d
                      /\ dicts'[d].iter = g
                      /\ gens'[g].st # "new"
                      /\ Len(gens'[g].out) >= Len(gens[g].out)
                      /\ left <= 0 => (last'.ret = RetStop /\ gens'[g].st = "done")
                /\ (gens[g].st = "done" /\ last'.op \notin {"restore", "setstate"})
                   => /\ inst'[i] = d
                      /\ dicts'[d].iter = g
                      /\ gens'[g].st = "done"]_vars

\* C15 witness: the second next() in a row that raised StopIteration
C15_Witness ==
    /\ last.op = "next"
    /\ last.ret = RetStop
    /\ LastDict.iter \in GenIds
    /\ gens[LastDict.iter].st = "done"
    /\ gens[LastDict.iter].out = LastItems
    /\ Len(LastItems) >= 1
    /\ LastDict.state_counter = Len(LastItems) + 2

\* C16: every __next__ call adds exactly one to state_counter, also the call that
\* raises StopIteration, so that after construction or restore_snapshot the counter
\* is the number of __next__ calls made since; no operation other than __next__,
\* restore_snapshot and __setstate__ changes state_counter.
C16_CounterCountsCalls ==
    [][\A i \in Insts :
          /\ (last'.op = "next" /\ last'.inst = i)
             => /\ inst'[i] = inst[i]
                /\ dicts'[inst[i]].state_counter = dicts[inst[i]].state_counter + 1
          /\ (inst[i] # None /\ last'.op \notin {"next", "restore", "setstate"})
             => /\ inst'[i] = inst[i]
                /\ dicts'[inst[i]].state_counter = dicts[inst[i]].state_counter
          /\ (inst'[i] # None /\ hist'[inst'[i]].from = None)
             => dicts'[inst'[i]].state_counter = hist'[inst'[i]].calls]_vars

\* C16 witness: a next() that raised StopIteration and was counted
C16_Witness ==
    /\ last.op = "next"
    /\ last.ret = RetStop
    /\ hist[inst[last.inst]].from = None
    /\ LastDict.state_counter = last.pre + 1
    /\ LastDict.state_counter = hist[inst[last.inst]].calls
    /\ hist[inst[last.inst]].calls > hist[inst[last.inst]].produced
    /\ hist[inst[last.inst]].produced >= 1

\* C17: once a datapipe has a generator in self.iter (after its first next(), after
\* a restore_snapshot with a target above 0, or after __setstate__) no operation
\* takes it away: it is still there after exhaustion and after restore_snapshot, and
\* every later __getstate__ raises, also on a datapipe __setstate__ has just set up.
C17_CursorNeverRemoved ==
    [][\A i \in Insts :
          /\ (inst[i] # None /\ dicts[inst[i]].iter \in GenIds)
             => /\ inst'[i] # None
                /\ dicts'[inst'[i]].iter \in GenIds
                /\ gens'[dicts'[inst'[i]].iter].live
                /\ (last'.op = "getstate" /\ last'.inst = i)
                   => (last'.ret = RetExc /\ held' = held)
          /\ (inst[i] # None /\ last'.inst = i
              /\ \/ last'.op \in {"next", "setstate"}
                 \/ last'.op = "restore" /\ last'.arg > 0)
             => dicts'[inst'[i]].iter \in GenIds]_vars

\* C17 witness: __getstate__ raised on a datapipe on which only __setstate__ had run
C17_Witness ==
    /\ last.op = "getstate"
    /\ last.ret = RetExc
    /\ last.phase = "installed"
    /\ LastDict.iter \in GenIds
    /\ gens[LastDict.iter].st = "new"
    /\ LastDict.state_counter = 0

C19_SetStateLeavesStateAlone ==
    [][\A i \in Insts :
          /\ (last'.op = "setstate" /\ last'.inst = i)
             => /\ dicts'[held].iter = NoKey
                /\ dicts'[held] = dicts[held]
          /\ \A j \in Insts \ {i} :
                (/\ last'.op = "next"
                 /\ last'.inst = i
                 /\ inst[j] # None
                 /\ hist[inst[i]].from # None
                 /\ hist[inst[j]].from # None)
                => /\ dicts'[inst'[j]].state_counter = dicts[inst[j]].state_counter
                   /\ dicts'[inst'[j]].iter = dicts[inst[j]].iter
                   /\ gens'[dicts'[inst'[j]].iter] = gens[dicts[inst[j]].iter]]_vars

====
